---- MODULE Spec2Model ----
(***************************************************************************)
(* GPSExtractor/extractGPS.js: the node script that streams every input    *)
(* video through a read stream into the GPMF decoder (gpmf-extract), joins *)
(* the per-file promises with Promise.all, hands the payloads to the       *)
(* telemetry interpreter (gopro-telemetry) and writes one geojson file.    *)
(*                                                                         *)
(* The script is single threaded: the main script runs to its end first,   *)
(* then the event loop runs one handler at a time.  Every action below is  *)
(* one such handler together with the promise reactions (microtasks) that  *)
(* run before the next handler.                                            *)
(***************************************************************************)
EXTENDS Integers, Sequences, FiniteSets, TLC

(* ------------------------------ bounds --------------------------------- *)

\* Largest number of <video_file_name> arguments explored.
MaxFiles == 2

\* Largest file length explored, in bytes.
MaxFileLen == 2

\* Largest chunk index and largest recording identifier among the file names
\* of a directory explored.
MaxChunk == 2
MaxRec == 2

(* ------------------------------ state ---------------------------------- *)

VARIABLES
    dir,          \* the video file names found in the directory of a batch
    grouping,     \* the logical recordings made of them, once grouped
    argc,         \* process.argv.length
    rejectionMode,\* what this Node does with an unhandled rejection, once seen
    content,      \* content[f]: the bytes of input file f on disk
    pc,           \* position of the main script
    i,            \* index of the for-of loop over files
    stream,       \* stream[f]: state of the read stream of file f
    pos,          \* pos[f]: bytes the stream of file f has emitted
    bytesRead,    \* bytesRead[c]: the loaders' offset counters, one cell per closure
    calls,        \* calls[f]: the calls made on the mp4boxFile of file f, in order
    promise,      \* promise[f]: state of the promise gpmfExtract returned for f
    resolveOrder, \* the files in the order their promises were fulfilled
    all,          \* state of Promise.all(promises)
    extracted,    \* the arrays goproTelemetry was called with, in order
    interp,       \* state of the promise goproTelemetry returned
    outFile,      \* content of the file at geojsonOutFile
    written,      \* number of completed fs.writeFileSync calls
    reported,     \* number of errors printed by the catch block
    escaped,      \* kinds of errors nothing handled
    exit          \* "running", or the way the process ended

vars == << dir, grouping, argc, rejectionMode, content, pc, i, stream, pos, bytesRead, calls, promise,
           resolveOrder, all, extracted, interp, outFile, written, reported,
           escaped, exit >>

Slots == 1..MaxFiles

\* files = process.argv.slice(3): the inputs are argv[3..]; file k is argv[2+k].
NFiles == IF argc > 3 THEN argc - 3 ELSE 0
Files == 1..NFiles

\* The byte at offset k-1 of file f.  Every position of every file holds a
\* different value, so a dropped, repeated, reordered or misrouted byte shows.
ByteAt(f, k) == (16 * f + k) % 256

FileOfLen(f, n) == [k \in 1..n |-> ByteAt(f, k)]

Min(a, b) == IF a < b THEN a ELSE b

(* ------------------------- the loader's pieces ------------------------- *)

\* line 32: the argument check.
ArgsInvalidOffByOne(n) == n < 3
ArgsInvalid(n) == n < 4

\* line 16: { highWaterMark: 4 * 1024 * 1024 }, the most bytes one 'data'
\* event carries.
HighWaterMark == 4 * 1024 * 1024

\* line 23: arrayBuffer.fileStart = bytesRead, taken before line 25 adds the
\* block's length.
FileStartAfterAdd(b, chunk) == b + Len(chunk)
FileStart(b, chunk) == b

\* line 22: new Uint8Array(chunk).buffer copies the bytes of the block into a
\* fresh ArrayBuffer of the block's length, each element taken modulo 2^8.
ToArrayBufferTruncated(chunk) ==
    [k \in 1..(Len(chunk) - 1) |-> chunk[k] % 256]
ToArrayBuffer(chunk) == [k \in 1..Len(chunk) |-> chunk[k] % 256]

\* line 25: bytesRead += chunk.length.
NextBytesRead(b, chunk) == b + Len(chunk)

\* line 17: var bytesRead is declared inside the function bufferAppender
\* returns, so every loader has a counter cell of its own.
SharedCell(f) == 1
Cell(f) == f

\* lines 18-26: the loader registers 'end' and 'data' listeners and no 'error'
\* listener, so a read error makes no call on the decoder.
OnErrorFlush(c) == Append(c, [op |-> "flush", fileStart |-> 0, data |-> << >>])
OnError(c) == c

AppendBufferCall(start, buf) ==
    [op |-> "appendBuffer", fileStart |-> start, data |-> buf]

FlushCall == [op |-> "flush", fileStart |-> 0, data |-> << >>]

(* ------------------------- the promise plumbing ------------------------ *)

\* line 46: the payload gpmfExtract resolves with for file f; the decoder is
\* deterministic, its payload a function of the file it was fed.
Payload(f) == [path |-> f, raw |-> content[f]]

\* line 50: Promise.all is fulfilled once every input promise is fulfilled.
JoinFulfilledAny(P) == \E f \in Files : P[f] = "resolved"
JoinFulfilledSettled(P) == \A f \in Files : P[f] \in {"resolved", "rejected"}
JoinFulfilled(P) == \A f \in Files : P[f] = "resolved"

\* line 50: Promise.all is rejected as soon as one input promise is rejected.
JoinRejected(P) == \E f \in Files : P[f] = "rejected"

\* line 50: the array Promise.all is fulfilled with holds the values in the
\* order of the input array, whatever the order of fulfilment.
PromiseAllValuesByArrival(order) ==
    [k \in 1..Len(order) |-> Payload(order[k])]
PromiseAllValues(order) == [k \in 1..NFiles |-> Payload(k)]

AllAfter(P) ==
    IF all # "pending" THEN all
    ELSE IF JoinFulfilled(P) THEN "resolved"
    ELSE IF JoinRejected(P) THEN "rejected"
    ELSE "pending"

\* line 51: goproTelemetry(extracted, { preset: "geojson" }).  The track it
\* returns is made of the fixes of every payload it is given, in order; the
\* script passes the whole array, payloads without a fix included.
InterpretSkipsEmpty(ex) ==
    [preset |-> "geojson", tracks |-> SelectSeq(ex, LAMBDA p : p.raw # << >>)]
Interpret(ex) == [preset |-> "geojson", tracks |-> ex]

\* line 52: JSON.stringify(telemetry, null, 2).
Stringify(t) == << "json", 2, t >>

\* A rejection nothing handles (`now` tells whether there is one): Node either
\* only warns (before version 15) or throws it as an uncaught exception, which
\* ends the process with code 1.  Which of the two this Node does shows at the
\* first such rejection.
Unhandled(now) ==
    IF ~now
       THEN UNCHANGED << rejectionMode, escaped, exit >>
       ELSE /\ escaped' = escaped \cup {"unhandledRejection"}
            /\ \E m \in (IF rejectionMode = "unknown" THEN {"warn", "throw"}
                         ELSE {rejectionMode}) :
                  /\ rejectionMode' = m
                  /\ exit' = IF m = "throw" THEN "exit1" ELSE exit

\* The promise reactions that run after a handler left the promises as P:
\* lines 50-51.
React(P, order) ==
    LET a == AllAfter(P) IN
    /\ all' = a
    /\ IF all = "pending" /\ a = "resolved"
          THEN /\ extracted' = Append(extracted, PromiseAllValues(order))
               /\ interp' = "pending"
          ELSE UNCHANGED << extracted, interp >>
    /\ Unhandled(\/ all = "pending" /\ a = "rejected"
                 \/ /\ all = "none"
                    /\ \E f \in Files : P[f] = "rejected" /\ promise[f] # "rejected")

\* What the decoder does with its promise during one appendBuffer or flush
\* call: nothing, resolve it (onSamples) or reject it (onError, no track).
Reactions == {"none", "resolve", "reject"}

\* The order in which the promises are fulfilled.
OrderAfter(f, r) ==
    IF r = "resolve" THEN Append(resolveOrder, f) ELSE resolveOrder

PromiseAfter(p, r) ==
    IF r = "resolve" THEN "resolved"
    ELSE IF r = "reject" THEN "rejected"
    ELSE p

(* ------------------------------ Init ----------------------------------- *)

\* What the file at geojsonOutFile holds before the run.
PreExisting == << "old" >>

\* The state of the script before its first statement.
ScriptStart ==
    /\ rejectionMode = "unknown"
    /\ outFile = PreExisting
    /\ pc = "check"
    /\ i = 1
    /\ stream = [f \in Slots |-> "none"]
    /\ pos = [f \in Slots |-> 0]
    /\ bytesRead = [c \in Slots |-> 0]
    /\ calls = [f \in Slots |-> << >>]
    /\ promise = [f \in Slots |-> "none"]
    /\ resolveOrder = << >>
    /\ all = "none"
    /\ extracted = << >>
    /\ interp = "none"
    /\ written = 0
    /\ reported = 0
    /\ escaped = {}
    /\ exit = "running"

\* No directory has been grouped.
Ungrouped == [done |-> FALSE, of |-> << >>]

Init ==
    /\ argc \in 2..(3 + MaxFiles)
    /\ \E len \in [Slots -> 0..MaxFileLen] :
          content = [f \in Slots |->
                        IF f <= argc - 3 THEN FileOfLen(f, len[f]) ELSE << >>]
    /\ dir = {}
    /\ grouping = Ungrouped
    /\ ScriptStart

(* --------------------------- the main script --------------------------- *)

\* line 45: for (const file of files) goes on while a file is left; nothing
\* makes it wait for an extraction that is in flight.
LoopContinuesBelowLimit(k) == k <= NFiles /\ k <= 1
LoopContinues(k) == k <= NFiles

\* lines 32-39: the argument check; an invalid invocation prints the usage
\* line and exits with code 1.
ArgCheck ==
    /\ pc = "check"
    /\ exit = "running"
    /\ IF ArgsInvalid(argc)
          THEN /\ pc' = "usage"
               /\ exit' = "exit1"
          ELSE /\ pc' = "loop"
               /\ exit' = exit
    /\ UNCHANGED << dir, grouping, argc, content, rejectionMode, i, stream, pos, bytesRead,
                    calls, promise, resolveOrder, all, extracted, interp,
                    outFile, written, reported, escaped >>

\* lines 45-46 with 14-17 and 27: one iteration of the loop.  gpmfExtract
\* calls the loader at once, which opens the stream, zeroes its counter and
\* registers its listeners; the promise it returns is pushed.
StartExtraction ==
    /\ pc = "loop"
    /\ exit = "running"
    /\ LoopContinues(i)
    /\ stream' = [stream EXCEPT ![i] = "open"]
    /\ bytesRead' = [bytesRead EXCEPT ![Cell(i)] = 0]
    /\ promise' = [promise EXCEPT ![i] = "pending"]
    /\ i' = i + 1
    /\ UNCHANGED << dir, grouping, argc, content, rejectionMode, pc, pos, calls,
                    resolveOrder, all, extracted, interp, outFile, written,
                    reported, escaped, exit >>

\* lines 42-58: the try block holds the whole loop and the join, so the catch
\* block is entered from anywhere in it and control goes on after line 58,
\* the end of the script; it does not return into the loop.
AfterCatchInLoop == "loop"
AfterCatch == "caught"

\* lines 46 and 56-58: the call throws synchronously; the catch block prints
\* the error and the script ends without reaching Promise.all.
StartThrows ==
    /\ pc = "loop"
    /\ exit = "running"
    /\ LoopContinues(i)
    /\ pc' = AfterCatch
    /\ reported' = reported + 1
    /\ UNCHANGED << dir, grouping, argc, content, rejectionMode, i, stream, pos, bytesRead,
                    calls, promise, resolveOrder, all, extracted, interp,
                    outFile, written, escaped, exit >>

\* lines 50-54: Promise.all(promises).then(...) is registered and the script
\* ends.  Over an empty array the join is fulfilled in the next microtask.
Join ==
    /\ pc = "loop"
    /\ exit = "running"
    /\ ~LoopContinues(i)
    /\ pc' = "done"
    /\ all' = IF JoinFulfilled(promise) THEN "resolved" ELSE "pending"
    /\ IF JoinFulfilled(promise)
          THEN /\ extracted' = Append(extracted, PromiseAllValues(resolveOrder))
               /\ interp' = "pending"
          ELSE UNCHANGED << extracted, interp >>
    /\ UNCHANGED << dir, grouping, argc, content, rejectionMode, i, stream, pos, bytesRead,
                    calls, promise, resolveOrder, outFile, written, reported,
                    escaped, exit >>

(* ---------------------------- the event loop --------------------------- *)

Looping == pc \in {"done", "caught"} /\ exit = "running"

\* lines 21-26: a 'data' event of n bytes on the stream of file f; r is what
\* the decoder does with the promise during appendBuffer.
StreamData(f, n, r) ==
    /\ Looping
    /\ stream[f] = "open"
    /\ n >= 1
    /\ n <= Min(HighWaterMark, Len(content[f]) - pos[f])
    /\ r # "none" => promise[f] = "pending"
    /\ LET chunk == SubSeq(content[f], pos[f] + 1, pos[f] + n)
           arrayBuffer == ToArrayBuffer(chunk)
           P == [promise EXCEPT ![f] = PromiseAfter(@, r)]
           order == OrderAfter(f, r)
       IN /\ calls' = [calls EXCEPT ![f] =
                          Append(@, AppendBufferCall(FileStart(bytesRead[Cell(f)], chunk),
                                                     arrayBuffer))]
          /\ bytesRead' = [bytesRead EXCEPT ![Cell(f)] = NextBytesRead(@, chunk)]
          /\ pos' = [pos EXCEPT ![f] = @ + n]
          /\ promise' = P
          /\ resolveOrder' = order
          /\ React(P, order)
    /\ UNCHANGED << dir, grouping, argc, content, pc, i, stream, outFile,
                    written, reported >>

\* lines 18-20: the 'end' event, emitted once every byte has been emitted.
StreamEnd(f, r) ==
    /\ Looping
    /\ stream[f] = "open"
    /\ pos[f] = Len(content[f])
    /\ r # "none" => promise[f] = "pending"
    /\ LET P == [promise EXCEPT ![f] = PromiseAfter(@, r)]
           order == OrderAfter(f, r)
       IN /\ calls' = [calls EXCEPT ![f] = Append(@, FlushCall)]
          /\ stream' = [stream EXCEPT ![f] = "ended"]
          /\ promise' = P
          /\ resolveOrder' = order
          /\ React(P, order)
    /\ UNCHANGED << dir, grouping, argc, content, pc, i, pos, bytesRead,
                    outFile, written, reported >>

\* line 16: the read fails (at open or at any later read).  The stream emits
\* 'error'; with no 'error' listener (lines 18-26) the event is thrown as an
\* uncaught exception, which ends the process with code 1.
StreamError(f) ==
    /\ Looping
    /\ stream[f] = "open"
    /\ stream' = [stream EXCEPT ![f] = "errored"]
    /\ calls' = [calls EXCEPT ![f] = OnError(@)]
    /\ escaped' = escaped \cup {"uncaughtException"}
    /\ exit' = "exit1"
    /\ UNCHANGED << dir, grouping, argc, content, rejectionMode, pc, i, pos, bytesRead,
                    promise, resolveOrder, all, extracted, interp, outFile,
                    written, reported >>

\* lines 51-53: the interpreter's promise is fulfilled and the callback writes
\* the output file; writeFileSync either writes the whole text or throws
\* (the path cannot be opened), and nothing handles what it throws.
InterpResolve(ok) ==
    /\ Looping
    /\ interp = "pending"
    /\ interp' = "resolved"
    /\ IF ok
          THEN /\ outFile' = Stringify(Interpret(extracted[Len(extracted)]))
               /\ written' = written + 1
          ELSE UNCHANGED << outFile, written >>
    /\ Unhandled(~ok)
    /\ UNCHANGED << dir, grouping, argc, content, pc, i, stream, pos,
                    bytesRead, calls, promise, resolveOrder, all, extracted,
                    reported >>

\* line 51: the interpreter's promise is rejected; it has no rejection handler.
InterpReject ==
    /\ Looping
    /\ interp = "pending"
    /\ interp' = "rejected"
    /\ Unhandled(TRUE)
    /\ UNCHANGED << dir, grouping, argc, content, pc, i, stream, pos,
                    bytesRead, calls, promise, resolveOrder, all, extracted,
                    outFile, written, reported >>

\* The event loop is empty (no open stream, no interpreter at work): the
\* process exits with code 0.
Exit ==
    /\ Looping
    /\ \A f \in Slots : stream[f] # "open"
    /\ interp # "pending"
    /\ exit' = "exit0"
    /\ UNCHANGED << dir, grouping, argc, content, rejectionMode, pc, i, stream, pos,
                    bytesRead, calls, promise, resolveOrder, all, extracted,
                    interp, outFile, written, reported, escaped >>

Next ==
    \/ ArgCheck
    \/ StartExtraction
    \/ StartThrows
    \/ Join
    \/ \E f \in Slots, n \in 1..MaxFileLen, r \in Reactions : StreamData(f, n, r)
    \/ \E f \in Slots, r \in Reactions : StreamEnd(f, r)
    \/ \E f \in Slots : StreamError(f)
    \/ \E ok \in BOOLEAN : InterpResolve(ok)
    \/ InterpReject
    \/ Exit

Spec == Init /\ [][Next]_vars

(* --------------------------- the chunk grouper ------------------------- *)
(* The batch script (extractGPS.py in the README) finds the videos of a     *)
(* directory, merges the chunks of each recording and runs the node script  *)
(* above once per recording.  Its grouping is modelled from its             *)
(* specification.                                                           *)

\* A file name of the camera's convention, as its characters: "G", a letter,
\* two digits of chunk index, four digits of recording identifier
\* (GX010001.mp4 is chunk 01 of recording 0001).
FileName(letter, chunk, rec) ==
    << "G", letter, chunk \div 10, chunk % 10,
       (rec \div 1000) % 10, (rec \div 100) % 10, (rec \div 10) % 10, rec % 10 >>

Letters == {"X", "H"}

ConventionNames ==
    {FileName(l, c, r) : l \in Letters, c \in 1..MaxChunk, r \in 1..MaxRec}

\* The chunk index and the recording identifier a file name encodes.
ChunkIndex(name) == 10 * name[3] + name[4]

RecordingId(name) == 1000 * name[5] + 100 * name[6] + 10 * name[7] + name[8]

RECURSIVE SortByChunkDescending(_)
SortByChunkDescending(S) ==
    IF S = {} THEN << >>
    ELSE LET last == CHOOSE n \in S : \A m \in S : ChunkIndex(n) <= ChunkIndex(m)
         IN Append(SortByChunkDescending(S \ {last}), last)

RECURSIVE SortByChunk(_)
\* The names of S in ascending order of chunk index.
SortByChunk(S) ==
    IF S = {} THEN << >>
    ELSE LET first == CHOOSE n \in S : \A m \in S : ChunkIndex(n) <= ChunkIndex(m)
         IN << first >> \o SortByChunk(S \ {first})

\* Two files of one recording carry the same chunk index.
HasDuplicateIndex(S) ==
    \E n, m \in S : n # m /\ ChunkIndex(n) = ChunkIndex(m)

\* The logical recordings of directory d: one per recording identifier, its
\* chunks in ascending order of index, or the error a duplicate index raises.
GroupChunks(d) ==
    [r \in {RecordingId(n) : n \in d} |->
        LET members == {n \in d : RecordingId(n) = r}
        IN IF HasDuplicateIndex(members)
              THEN [error |-> "DuplicateChunkError", chunks |-> << >>]
              ELSE [error |-> "none", chunks |-> SortByChunk(members)]]

\* The runs of the node script the batch makes: one per recording grouped
\* without error, its output named after the recording identifier.
Invocations(g) ==
    {[out |-> r, files |-> g[r].chunks] : r \in {q \in DOMAIN g : g[q].error = "none"}}

InitGrouper ==
    /\ dir \in SUBSET ConventionNames
    /\ grouping = Ungrouped
    /\ argc = 2
    /\ content = [f \in Slots |-> << >>]
    /\ ScriptStart

\* The batch groups the file names of the directory.
GroupDirectory ==
    /\ ~grouping.done
    /\ grouping' = [done |-> TRUE, of |-> GroupChunks(dir)]
    /\ UNCHANGED << dir, argc, rejectionMode, content, pc, i, stream, pos,
                    bytesRead, calls, promise, resolveOrder, all, extracted,
                    interp, outFile, written, reported, escaped, exit >>

NextGrouper == GroupDirectory

SpecGrouper == InitGrouper /\ [][NextGrouper]_vars

(* ----------------------- reading the call logs ------------------------- *)

IsAppend(x) == x.op = "appendBuffer"

IsFlush(x) == x.op = "flush"

RECURSIVE BytesOf(_)
\* The bytes the appendBuffer calls of log c carried, concatenated in order.
BytesOf(c) ==
    IF c = << >> THEN << >>
    ELSE (IF IsAppend(Head(c)) THEN Head(c).data ELSE << >>) \o BytesOf(Tail(c))

Appends(c) == SelectSeq(c, IsAppend)

FlushCount(c) == Len(SelectSeq(c, IsFlush))

IsPrefix(a, b) == Len(a) <= Len(b) /\ a = SubSeq(b, 1, Len(a))

\* The extraction of file f has failed: its promise is rejected, or its
\* stream broke before the promise was fulfilled.
Failed(f) ==
    \/ promise[f] = "rejected"
    \/ stream[f] = "errored" /\ promise[f] # "resolved"

(* ------------------------------ claims --------------------------------- *)

RECURSIVE Contiguous(_, _)
\* The appendBuffer calls of log c carry non-empty blocks whose offsets are
\* `at`, then `at` plus the first block's length, and so on.
Contiguous(c, at) ==
    IF c = << >> THEN TRUE
    ELSE IF IsFlush(Head(c)) THEN Contiguous(Tail(c), at)
    ELSE /\ Head(c).fileStart = at
         /\ Len(Head(c).data) >= 1
         /\ Contiguous(Tail(c), at + Len(Head(c).data))

\* C1: the offsets reported with the blocks of a file start at 0 and strictly
\* increase without gap or overlap: the fileStart of every block equals the
\* total length of the blocks delivered before it for that file.
C1_OffsetsContiguous == \A f \in Slots : Contiguous(calls[f], 0)

C1_Witness ==
    \E f \in Files :
        /\ Len(Appends(calls[f])) >= 2
        /\ Appends(calls[f])[2].fileStart > 0

\* C2: for a file read without error the blocks, concatenated in callback
\* order, are the file byte for byte, and flush is called exactly once, as the
\* last call: no appendBuffer follows it and it is not sent before every byte
\* has been delivered.
C2_ReconstructsThenFlushesOnce ==
    \A f \in Slots :
        LET bytes == BytesOf(calls[f])
            flushes == FlushCount(calls[f])
        IN /\ IsPrefix(bytes, content[f])
           /\ flushes <= 1
           /\ flushes = 1 =>
                 /\ IsFlush(calls[f][Len(calls[f])])
                 /\ bytes = content[f]
           /\ stream[f] = "ended" => flushes = 1

C2_Witness ==
    \E f \in Files :
        /\ stream[f] = "ended"
        /\ Len(Appends(calls[f])) >= 2
        /\ BytesOf(calls[f]) = content[f]

\* C3: when the read of a file fails mid-stream the error is raised (nothing
\* listens for it, so it is thrown), no block callback is made for that file
\* after the failure and flush is never sent for it.
C3_ErrorStopsLoader ==
    /\ [](\A f \in Slots :
            stream[f] = "errored" =>
                /\ "uncaughtException" \in escaped
                /\ FlushCount(calls[f]) = 0)
    /\ [][\A f \in Slots : stream[f] = "errored" => calls'[f] = calls[f]]_vars

C3_Witness ==
    \E f \in Files :
        /\ stream[f] = "errored"
        /\ Len(Appends(calls[f])) >= 1
        /\ Len(BytesOf(calls[f])) < Len(content[f])

\* C4: the output file is written at most once, and only after every input's
\* extraction has succeeded and the interpreter has returned; when an
\* extraction or the interpreter fails nothing is written and the file at the
\* output path is as it was before the run.
C4_WriteOnlyAfterAllSucceeded ==
    /\ written <= 1
    /\ written = 1 =>
          /\ \A f \in Files : promise[f] = "resolved"
          /\ interp = "resolved"
          /\ outFile = Stringify(Interpret([k \in Files |-> Payload(k)]))
    /\ written = 0 => outFile = PreExisting
    /\ ((\E f \in Files : Failed(f)) \/ interp = "rejected") =>
          /\ written = 0
          /\ outFile = PreExisting

C4_Witness ==
    /\ NFiles = 2
    /\ written = 1
    /\ outFile # PreExisting

C6_AsStated ==
    all \in {"resolved", "rejected"} =>
        \A f \in Files : promise[f] \in {"resolved", "rejected"}

\* C6, amended: the join is fulfilled (and the interpreter invoked) only after
\* every started extraction has succeeded, never by the first one to
\* complete; it is rejected only after some extraction has failed, possibly
\* while others are still in flight.
C6_JoinAwaitsEverySuccess ==
    /\ all = "resolved" => \A f \in Files : promise[f] = "resolved"
    /\ extracted # << >> => \A f \in Files : promise[f] = "resolved"
    /\ all = "rejected" => \E f \in Files : promise[f] = "rejected"

C6_Witness ==
    /\ NFiles = 2
    /\ all = "resolved"
    /\ resolveOrder = << 2, 1 >>

\* C7 as stated: no recording-level error escapes as an uncaught error or an
\* unhandled rejection, and a run with a valid invocation never ends with a
\* status other than 0.
C7_AsStated ==
    /\ escaped = {}
    /\ argc >= 4 => exit # "exit1"

\* C8: an invalid invocation (no output path, or no input file) exits with
\* code 1 before any work: no stream is opened, no extraction is started, the
\* interpreter is not invoked and nothing is written.
C8_InvalidInvocationIsFatal ==
    argc < 4 =>
        /\ pc \in {"check", "usage"}
        /\ pc = "usage" => exit = "exit1"
        /\ exit \in {"running", "exit1"}
        /\ \A f \in Slots : stream[f] = "none" /\ promise[f] = "none"
        /\ \A f \in Slots : calls[f] = << >>
        /\ all = "none"
        /\ extracted = << >>
        /\ written = 0
        /\ outFile = PreExisting

C8_Witness ==
    /\ argc = 3
    /\ pc = "usage"
    /\ exit = "exit1"

\* C9: whatever the interleaving of the loaders' events and the order in
\* which the decodes complete, the interpreter is handed the payloads in the
\* order of the input files, never in the order of completion.
C9_PayloadsInInputOrder ==
    \A c \in 1..Len(extracted) :
        /\ Len(extracted[c]) = NFiles
        /\ \A k \in 1..NFiles :
              /\ extracted[c][k].path = k
              /\ extracted[c][k].raw = content[k]

C9_Witness ==
    /\ Len(extracted) = 1
    /\ resolveOrder = << 2, 1 >>
    /\ extracted[1][1].path = 1

RECURSIVE RunsAlone(_, _, _)
\* Log c, read from offset `at` on, is what the loader of a file holding
\* `file` delivers when it runs alone: non-empty blocks of the file, each
\* with the offset it has in the file, then at most one flush, at the end.
RunsAlone(c, file, at) ==
    IF c = << >> THEN TRUE
    ELSE IF IsFlush(Head(c)) THEN at = Len(file) /\ Tail(c) = << >>
    ELSE /\ Head(c).fileStart = at
         /\ Len(Head(c).data) >= 1
         /\ at + Len(Head(c).data) <= Len(file)
         /\ Head(c).data = SubSeq(file, at + 1, at + Len(Head(c).data))
         /\ RunsAlone(Tail(c), file, at + Len(Head(c).data))

\* C10: the loaders share no state.  Under every interleaving, what each
\* file's decoder receives is a run of that file's loader alone, and each
\* loader's counter counts the bytes of its own file only.
C10_LoadersShareNoState ==
    \A f \in Slots :
        /\ RunsAlone(calls[f], content[f], 0)
        /\ bytesRead[f] = Len(BytesOf(calls[f]))
        /\ bytesRead[f] = pos[f]

C10_Witness ==
    /\ stream[1] = "open"
    /\ stream[2] = "open"
    /\ Len(Appends(calls[1])) = 1
    /\ Len(Appends(calls[2])) = 1
    /\ pos[1] < Len(content[1])
    /\ pos[2] < Len(content[2])

\* The fixes the decoder finds in file f are a function of its bytes; a file
\* that holds none yields a payload without fixes.
NoFixes(f) == content[f] = << >>

C12_OutputDependsOnInputsOnly ==
    written >= 1 =>
        outFile = << "json", 2,
                     [preset |-> "geojson",
                      tracks |-> [k \in 1..(argc - 3) |->
                                     [path |-> k, raw |-> content[k]]]] >>

C12_Witness ==
    /\ written = 1
    /\ resolveOrder = << 2, 1 >>
    /\ content[1] # << >>
    /\ content[2] # << >>
    /\ outFile[3].tracks[1].raw = content[1]

OpenStreams == {f \in Slots : stream[f] = "open"}

\* C13 as stated: the streams open at one time are bounded by a limit that
\* holds however many input files are given, so fewer are open than the
\* largest number of inputs a run is given.
C13_AsStated == Cardinality(OpenStreams) < MaxFiles

\* C13, amended: the only bound on the streams open at one time is the number
\* of input files.  The loop opens a stream for every input before any block
\* is read, so while the loop runs every file started so far is open, and at
\* its end all N files are open at the same time.
C13_EveryInputOpenAtOnce ==
    /\ Cardinality(OpenStreams) <= NFiles
    /\ pc = "loop" => OpenStreams = 1..(i - 1)
    /\ pc = "done" => \A f \in Files : stream[f] # "none"

C13_Witness ==
    /\ NFiles = 2
    /\ pc = "done"
    /\ OpenStreams = {1, 2}

\* The chunk indices of a sequence of names.
IndicesOf(chunks) == [k \in 1..Len(chunks) |-> ChunkIndex(chunks[k])]

\* C14: grouping the file names of a directory yields one logical recording
\* per recording identifier; its chunk indices are strictly increasing with no
\* duplicates (two files of a recording with one index raise
\* DuplicateChunkError instead), every group has at least one chunk, no chunk
\* belongs to two groups, and one output is produced per recording.
C14_GroupsAreOrderedAndDisjoint ==
    grouping.done =>
        LET g == grouping.of IN
        /\ DOMAIN g = {RecordingId(n) : n \in dir}
        /\ \A r \in DOMAIN g :
              LET members == {n \in dir : RecordingId(n) = r}
                  chunks == g[r].chunks
              IN /\ g[r].error = "DuplicateChunkError" <=>
                       \E n, m \in members :
                           n # m /\ ChunkIndex(n) = ChunkIndex(m)
                 /\ g[r].error = "none" =>
                       /\ Len(chunks) >= 1
                       /\ {chunks[k] : k \in 1..Len(chunks)} = members
                       /\ \A j, k \in 1..Len(chunks) :
                             j < k => ChunkIndex(chunks[j]) < ChunkIndex(chunks[k])
        /\ \A r, q \in DOMAIN g :
              r # q =>
                 {g[r].chunks[k] : k \in 1..Len(g[r].chunks)}
                     \cap {g[q].chunks[k] : k \in 1..Len(g[q].chunks)} = {}
        /\ \A r \in DOMAIN g :
              g[r].error = "none" =>
                 Cardinality({v \in Invocations(g) : v.out = r}) = 1
        /\ \A v \in Invocations(g) : v.files = g[v.out].chunks

\* GX010001.mp4, GX020001.mp4 and GX010002.mp4 are grouped as recording 0001
\* = [chunk 1, chunk 2] and recording 0002 = [chunk 1].
C14_Witness ==
    /\ grouping.done
    /\ dir = {<< "G", "X", 0, 1, 0, 0, 0, 1 >>,
              << "G", "X", 0, 2, 0, 0, 0, 1 >>,
              << "G", "X", 0, 1, 0, 0, 0, 2 >>}
    /\ DOMAIN grouping.of = {1, 2}
    /\ grouping.of[1].chunks = << << "G", "X", 0, 1, 0, 0, 0, 1 >>,
                                  << "G", "X", 0, 2, 0, 0, 0, 1 >> >>
    /\ grouping.of[2].chunks = << << "G", "X", 0, 1, 0, 0, 0, 2 >> >>
    /\ Cardinality(Invocations(grouping.of)) = 2

\* One step never reopens a stream, revives one that ended or broke, settles
\* a promise a second time, or starts the interpreter again.
SingleAttemptStep ==
    /\ \A f \in Slots :
          /\ stream[f] # "none" => stream'[f] # "none"
          /\ stream[f] \in {"ended", "errored"} => stream'[f] = stream[f]
          /\ promise[f] # "none" => promise'[f] # "none"
          /\ promise[f] \in {"resolved", "rejected"} => promise'[f] = promise[f]
    /\ interp \in {"resolved", "rejected"} => interp' = interp
    /\ IsPrefix(extracted, extracted')

\* C15: each input file is loaded and decoded in a single attempt (one stream,
\* never reopened, its promise settled once), and the interpreter is invoked
\* at most once, with exactly one payload per input file, each the payload of
\* a fulfilled extraction, none missing or duplicated.
C15_SingleAttemptSingleInterpretation ==
    /\ [](/\ Len(extracted) <= 1
          /\ interp # "none" <=> Len(extracted) = 1
          /\ \A f \in Slots : (stream[f] # "none") <=> (f \in Files /\ f < i)
          /\ \A c \in 1..Len(extracted) :
                /\ {extracted[c][k].path : k \in 1..Len(extracted[c])} = Files
                /\ Len(extracted[c]) = Cardinality(Files)
                /\ \A k \in 1..Len(extracted[c]) :
                      promise[extracted[c][k].path] = "resolved")
    /\ [][SingleAttemptStep]_vars

C15_Witness ==
    /\ NFiles = 2
    /\ Len(extracted) = 1
    /\ Len(extracted[1]) = 2
    /\ interp = "resolved"
    /\ \A f \in Files : stream[f] = "ended" /\ FlushCount(calls[f]) = 1

\* C16: once the argument check has passed, the list of input files is not
\* empty: no extraction, join or interpretation runs over zero files, the
\* interpreter is never given an empty collection of payloads, and no output
\* is written for an invocation that named no video file.
C16_NeverOverZeroFiles ==
    /\ pc \in {"loop", "done", "caught"} => NFiles >= 1
    /\ (\E f \in Slots : stream[f] # "none" \/ promise[f] # "none") => NFiles >= 1
    /\ all # "none" => NFiles >= 1
    /\ \A c \in 1..Len(extracted) : extracted[c] # << >>
    /\ interp # "none" => NFiles >= 1
    /\ written >= 1 => /\ argc >= 4
                       /\ outFile[3].tracks # << >>
    /\ NFiles = 0 => outFile = PreExisting

\* The smallest invocation that passes the check: one video file, interpreted
\* and written.
C16_Witness ==
    /\ argc = 4
    /\ all = "resolved"
    /\ Len(extracted) = 1
    /\ Len(extracted[1]) = 1
    /\ written = 1

\* C17: if starting the extraction of a file throws synchronously, the files
\* from that one on are never started, the join and the interpreter are never
\* reached and no output is written, while the loaders started before it are
\* left as they are and go on delivering their events up to the end signal.
C17_ThrowStopsLoopNotLoaders ==
    reported >= 1 =>
        /\ pc = "caught"
        /\ reported = 1
        /\ i \in Files
        /\ \A f \in Slots :
              f >= i => /\ stream[f] = "none"
                        /\ promise[f] = "none"
                        /\ calls[f] = << >>
        /\ all = "none"
        /\ extracted = << >>
        /\ interp = "none"
        /\ written = 0
        /\ outFile = PreExisting
        /\ \A f \in Files :
              f < i => /\ stream[f] # "none"
                       /\ IsPrefix(BytesOf(calls[f]), content[f])
                       /\ stream[f] = "ended" => BytesOf(calls[f]) = content[f]
                       /\ (stream[f] = "open" /\ exit = "running") =>
                             \/ ENABLED (\E n \in 1..MaxFileLen : StreamData(f, n, "none"))
                             \/ ENABLED StreamEnd(f, "none")

\* The second file threw; the loader of the first was already started and has
\* since delivered its whole file and the end signal.
C17_Witness ==
    /\ NFiles = 2
    /\ pc = "caught"
    /\ i = 2
    /\ content[1] # << >>
    /\ stream[1] = "ended"
    /\ BytesOf(calls[1]) = content[1]
    /\ FlushCount(calls[1]) = 1
    /\ written = 0

====
